---- MODULE Spec2Model ----
(***************************************************************************)
(* SegmentTree (src/data_structures/segment_tree.hpp): an array-backed     *)
(* range-minimum tree with lazy propagation.  The object's fields ar,      *)
(* segment_tree, lazy and n are the state; rangeMin, updateRange and        *)
(* pointUpdate are the operations; buildTree, push, rangeUpdate and query   *)
(* are the recursive helpers, written as operators on a record of the      *)
(* object's fields.                                                        *)
(***************************************************************************)
EXTENDS Integers, Sequences, FiniteSets, TLC

\* ---------------------------------------------------------------- bounds
\* Largest array size N the constructor is given.
MaxN == 3
\* Number of calls made on one object after its construction.
MaxOps == 2
\* Number of calls made on the object of the usage example.
MaxCalls == 6
\* Number of calls made on one object when pairs of updates are compared.
MaxPairOps == 1
\* Largest number of elements a DSU is constructed with.
MaxDsuN == 4
\* Largest value stored in a BinarySearchTree (values are 1..MaxKey).
MaxKey == 4
\* Largest number of insert/extractMax calls made on one heap.
MaxHeapCalls == 5
\* Largest n passed to binomialPascal.
MaxBinomN == 3
\* BinomialCoefficients::MAX_N.
MAX_N == 1000
\* Largest number of vertices of a graph, and of edges put into it.
MaxV == 3
MaxEdges == 3
\* Largest n, and number of edges, passed to Kruskal::findMST.
MaxMstN == 3
MaxMstEdges == 3
\* Largest n, and number of edges, passed to BellmanFord::shortestPath.
MaxBfN == 3
MaxBfEdges == 3
\* Largest n passed to PrimeSieve::countPrimes.
MaxSieveN == 60
\* Largest length of an array passed to Sorting::quickSelect.
MaxSelectLen == 3

\* common.hpp sets INF = 1e18 (with int = long long).  TLC's integers are
\* 32 bits wide, so the sentinel is scaled down; it stays far above every
\* value, delta and sum the bounded runs can produce, which is all the code
\* relies on.
INF == 1000000000

\* Element values of the initial arrays and of pointUpdate.
Values == {0, 1}
\* Deltas of updateRange (signed, one of each sign).
Deltas == {-1, 2}

Min(a, b) == IF a < b THEN a ELSE b

\* ------------------------------------------------------------- variables
VARIABLES
    ar,             \* vi ar: the tracked base array, index 0..n-1
    segment_tree,   \* vi segment_tree: 4n slots, root at 1
    lazy,           \* vi lazy: 4n slots of pending deltas
    n,              \* int n
    touched,        \* the slots of segment_tree/lazy read or written so far
    last,           \* the last call made and what it returned
    prev,           \* the object's fields as they were before the last call
    naive,          \* reference array: what a plain O(N) array would hold
    nops,           \* number of calls made since construction
    calls,          \* the usage example's calls so far, with their results
    alt,            \* the fields of a tree updated by the flush-on-overlap variant
    dsu,            \* a DSU object: parent, rank, size
    bst,            \* a BinarySearchTree object: root
    heap,           \* the arr and n handed to HeapSort::insert / extractMax
    binom,          \* BinomialCoefficients' statics: pascalTriangle, initialized
    job             \* one call of a static function: its arguments and result

\* The variables of the SegmentTree object and the other objects.
segVars == <<ar, segment_tree, lazy, n, touched, last, prev, naive, nops>>
others == <<dsu, bst, heap, binom, job>>

vars == <<ar, segment_tree, lazy, n, touched, last, prev, naive, nops, calls,
          alt, dsu, bst, heap, binom, job>>

\* An object that a specification does not use.
Unused == "unused"

OthersUnused ==
    dsu = Unused /\ bst = Unused /\ heap = Unused /\ binom = Unused /\ job = Unused

\* The object's fields as one record, the `this` the member functions act on.
\* acc collects the slots accessed, res holds the value a query returns.
This == [ar |-> ar, segment_tree |-> segment_tree, lazy |-> lazy, n |-> n,
         acc |-> touched, res |-> 0]

\* ------------------------------------------------------------ buildTree
RECURSIVE buildTree(_, _, _, _)

\* buildTree with the bug of an internal node taking its left child's value
\* instead of the minimum of both children.
buildTree_LeftOnly(t, start_index, end_index, segment_index) ==
    IF start_index = end_index
    THEN [t EXCEPT !.segment_tree[segment_index] = t.ar[start_index],
                   !.acc = @ \cup {segment_index}]
    ELSE LET mid == (start_index + end_index) \div 2
             t1  == buildTree(t, start_index, mid, 2 * segment_index)
             t2  == buildTree(t1, mid + 1, end_index, 2 * segment_index + 1)
         IN  [t2 EXCEPT !.segment_tree[segment_index] =
                            t2.segment_tree[2 * segment_index],
                        !.acc = @ \cup {segment_index, 2 * segment_index}]

buildTree(t, start_index, end_index, segment_index) ==
    IF start_index = end_index
    THEN [t EXCEPT !.segment_tree[segment_index] = t.ar[start_index],
                   !.acc = @ \cup {segment_index}]
    ELSE LET mid == (start_index + end_index) \div 2
             t1  == buildTree(t, start_index, mid, 2 * segment_index)
             t2  == buildTree(t1, mid + 1, end_index, 2 * segment_index + 1)
         IN  [t2 EXCEPT !.segment_tree[segment_index] =
                            Min(t2.segment_tree[2 * segment_index],
                                t2.segment_tree[2 * segment_index + 1]),
                        !.acc = @ \cup {segment_index, 2 * segment_index,
                                        2 * segment_index + 1}]

\* SegmentTree(vi& arr): copy arr, size the two vectors to 4n, build.
Construct(arr) ==
    LET len == Cardinality(DOMAIN arr)
        t0  == [ar |-> arr,
                segment_tree |-> [i \in 0 .. 4 * len - 1 |-> INF],
                lazy |-> [i \in 0 .. 4 * len - 1 |-> 0],
                n |-> len, acc |-> {}, res |-> 0]
    IN  buildTree(t0, 0, len - 1, 1)

\* ----------------------------------------------------------------- push
\* push with the bug of not forwarding the delta to the children.
push_NoPropagate(t, node, start, end) ==
    IF t.lazy[node] # 0
    THEN [t EXCEPT !.segment_tree[node] = @ + t.lazy[node],
                   !.lazy[node] = 0, !.acc = @ \cup {node}]
    ELSE [t EXCEPT !.acc = @ \cup {node}]

\* push with the bug of not clearing the node's own pending delta.
push_NoClear(t, node, start, end) ==
    IF t.lazy[node] # 0
    THEN LET d  == t.lazy[node]
             t1 == [t EXCEPT !.segment_tree[node] = @ + d]
         IN  IF start # end
             THEN [t1 EXCEPT !.lazy[2 * node] = @ + d,
                             !.lazy[2 * node + 1] = @ + d,
                             !.acc = @ \cup {node, 2 * node, 2 * node + 1}]
             ELSE [t1 EXCEPT !.acc = @ \cup {node}]
    ELSE [t EXCEPT !.acc = @ \cup {node}]

\* push with the bug of forwarding the delta to child slots of a leaf too
\* (the start != end test left out).
push_NoLeafCheck(t, node, start, end) ==
    IF t.lazy[node] # 0
    THEN LET d == t.lazy[node]
         IN  [t EXCEPT !.segment_tree[node] = @ + d,
                       !.lazy = [i \in DOMAIN t.lazy |->
                                    IF i = node THEN 0
                                    ELSE IF i \in {2 * node, 2 * node + 1}
                                         THEN t.lazy[i] + d
                                         ELSE t.lazy[i]],
                       !.acc = @ \cup {node, 2 * node, 2 * node + 1}]
    ELSE [t EXCEPT !.acc = @ \cup {node}]

\* push with the bug of forwarding the delta to the left child only.
push_LeftChildOnly(t, node, start, end) ==
    IF t.lazy[node] # 0
    THEN LET d  == t.lazy[node]
             t1 == [t EXCEPT !.segment_tree[node] = @ + d]
             t2 == IF start # end
                   THEN [t1 EXCEPT !.lazy[2 * node] = @ + d,
                                   !.acc = @ \cup {2 * node}]
                   ELSE t1
         IN  [t2 EXCEPT !.lazy[node] = 0, !.acc = @ \cup {node}]
    ELSE [t EXCEPT !.acc = @ \cup {node}]

push(t, node, start, end) ==
    IF t.lazy[node] # 0
    THEN LET d  == t.lazy[node]
             t1 == [t EXCEPT !.segment_tree[node] = @ + d]
             t2 == IF start # end
                   THEN [t1 EXCEPT !.lazy[2 * node] = @ + d,
                                   !.lazy[2 * node + 1] = @ + d,
                                   !.acc = @ \cup {2 * node, 2 * node + 1}]
                   ELSE t1
         IN  [t2 EXCEPT !.lazy[node] = 0, !.acc = @ \cup {node}]
    ELSE [t EXCEPT !.acc = @ \cup {node}]

\* ---------------------------------------------------------- rangeUpdate
RECURSIVE rangeUpdate(_, _, _, _, _, _, _)

\* rangeUpdate with the bug of leaving the delta pending on a fully covered
\* node (the second push left out), so that its stored value is stale when
\* the parent recomputes its minimum.
rangeUpdate_NoPushAfter(t, node, start, end, l, r, val) ==
    LET t0 == push(t, node, start, end)
    IN  IF start > end \/ start > r \/ end < l THEN t0
        ELSE IF start >= l /\ end <= r
        THEN [t0 EXCEPT !.lazy[node] = @ + val]
        ELSE LET mid == (start + end) \div 2
                 t1  == rangeUpdate(t0, 2 * node, start, mid, l, r, val)
                 t2  == rangeUpdate(t1, 2 * node + 1, mid + 1, end, l, r, val)
             IN  [t2 EXCEPT !.segment_tree[node] =
                                Min(t2.segment_tree[2 * node],
                                    t2.segment_tree[2 * node + 1]),
                            !.acc = @ \cup {node, 2 * node, 2 * node + 1}]

\* rangeUpdate with the bug of not recomputing a partially covered node
\* from its children.
rangeUpdate_NoRecompute(t, node, start, end, l, r, val) ==
    LET t0 == push(t, node, start, end)
    IN  IF start > end \/ start > r \/ end < l THEN t0
        ELSE IF start >= l /\ end <= r
        THEN push([t0 EXCEPT !.lazy[node] = @ + val], node, start, end)
        ELSE LET mid == (start + end) \div 2
                 t1  == rangeUpdate(t0, 2 * node, start, mid, l, r, val)
             IN  rangeUpdate(t1, 2 * node + 1, mid + 1, end, l, r, val)

\* rangeUpdate with the bug of treating a node that starts at r as lying
\* outside [l, r] (start >= r instead of start > r).
rangeUpdate_OffByOne(t, node, start, end, l, r, val) ==
    LET t0 == push(t, node, start, end)
    IN  IF start > end \/ start >= r \/ end < l THEN t0
        ELSE IF start >= l /\ end <= r
        THEN push([t0 EXCEPT !.lazy[node] = @ + val], node, start, end)
        ELSE LET mid == (start + end) \div 2
                 t1  == rangeUpdate(t0, 2 * node, start, mid, l, r, val)
                 t2  == rangeUpdate(t1, 2 * node + 1, mid + 1, end, l, r, val)
             IN  [t2 EXCEPT !.segment_tree[node] =
                                Min(t2.segment_tree[2 * node],
                                    t2.segment_tree[2 * node + 1]),
                            !.acc = @ \cup {node, 2 * node, 2 * node + 1}]

rangeUpdate(t, node, start, end, l, r, val) ==
    LET t0 == push(t, node, start, end)
    IN  IF start > end \/ start > r \/ end < l THEN t0
        ELSE IF start >= l /\ end <= r
        THEN push([t0 EXCEPT !.lazy[node] = @ + val], node, start, end)
        ELSE LET mid == (start + end) \div 2
                 t1  == rangeUpdate(t0, 2 * node, start, mid, l, r, val)
                 t2  == rangeUpdate(t1, 2 * node + 1, mid + 1, end, l, r, val)
             IN  [t2 EXCEPT !.segment_tree[node] =
                                Min(t2.segment_tree[2 * node],
                                    t2.segment_tree[2 * node + 1]),
                            !.acc = @ \cup {node, 2 * node, 2 * node + 1}]

\* ---------------------------------------------------------------- query
RECURSIVE query(_, _, _, _, _, _)

\* query with the bug of treating a node that starts at query_end as lying
\* outside the query range (<= instead of <).
query_InclusiveMiss(t, start_index, end_index, segment_index, query_start, query_end) ==
    LET t0 == push(t, segment_index, start_index, end_index)
    IN  IF query_end <= start_index \/ query_start > end_index
        THEN [t0 EXCEPT !.res = INF]
        ELSE IF query_start <= start_index /\ end_index <= query_end
        THEN [t0 EXCEPT !.res = t0.segment_tree[segment_index]]
        ELSE LET mid   == (start_index + end_index) \div 2
                 left  == query(t0, start_index, mid, 2 * segment_index,
                                query_start, query_end)
                 right == query(left, mid + 1, end_index, 2 * segment_index + 1,
                                query_start, query_end)
             IN  [right EXCEPT !.res = Min(left.res, right.res)]

query(t, start_index, end_index, segment_index, query_start, query_end) ==
    LET t0 == push(t, segment_index, start_index, end_index)
    IN  IF query_end < start_index \/ query_start > end_index
        THEN [t0 EXCEPT !.res = INF]
        ELSE IF query_start <= start_index /\ end_index <= query_end
        THEN [t0 EXCEPT !.res = t0.segment_tree[segment_index]]
        ELSE LET mid   == (start_index + end_index) \div 2
                 left  == query(t0, start_index, mid, 2 * segment_index,
                                query_start, query_end)
                 right == query(left, mid + 1, end_index, 2 * segment_index + 1,
                                query_start, query_end)
             IN  [right EXCEPT !.res = Min(left.res, right.res)]

\* ------------------------------------------------- the public operations
\* rangeMin with the bug of starting at slot 0 of the 1-rooted layout.
rangeMin_RootZero(t, l, r) == query(t, 0, t.n - 1, 0, l, r)

rangeMin(t, l, r) == query(t, 0, t.n - 1, 1, l, r)

updateRange(t, l, r, val) == rangeUpdate(t, 1, 0, t.n - 1, l, r, val)

\* pointUpdate with the bug of updating the range [pos, pos+1].
pointUpdate_OffByOne(t, pos, val) ==
    LET t1 == rangeUpdate(t, 1, 0, t.n - 1, pos, pos + 1, val - t.ar[pos])
    IN  [t1 EXCEPT !.ar[pos] = val]

\* pointUpdate with the bug of adding val instead of the difference to the
\* tracked value.
pointUpdate_AddsValue(t, pos, val) ==
    LET t1 == rangeUpdate(t, 1, 0, t.n - 1, pos, pos, val)
    IN  [t1 EXCEPT !.ar[pos] = val]

pointUpdate(t, pos, val) ==
    LET t1 == rangeUpdate(t, 1, 0, t.n - 1, pos, pos, val - t.ar[pos])
    IN  [t1 EXCEPT !.ar[pos] = val]

\* ------------------------------------------------------------ the driver
\* Arrays the constructor is given: every size 1..MaxN over Values.
Arrays == UNION {[0 .. len - 1 -> Values] : len \in 1 .. MaxN}

\* The array of segmentTreeExample.
ExampleArr == [i \in 0 .. 7 |-> <<1, 3, 2, 4, 5, 6, 7, 8>>[i + 1]]

NoCall == [op |-> "construct", l |-> 0, r |-> 0, val |-> 0, res |-> 0]

Fields(t) == [ar |-> t.ar, segment_tree |-> t.segment_tree, lazy |-> t.lazy]

InitObject(arr) ==
    LET t == Construct(arr)
    IN  /\ ar = t.ar
        /\ segment_tree = t.segment_tree
        /\ lazy = t.lazy
        /\ n = t.n
        /\ touched = t.acc
        /\ last = NoCall
        /\ prev = Fields(t)
        /\ naive = arr
        /\ nops = 0
        /\ calls = <<>>
        /\ OthersUnused

InitWith(arr) == InitObject(arr) /\ alt = Unused

Init == \E arr \in Arrays : InitWith(arr)

\* The effect of one call on the object's fields and on the bookkeeping.
Becomes(t, call) ==
    /\ ar' = t.ar
    /\ segment_tree' = t.segment_tree
    /\ lazy' = t.lazy
    /\ n' = t.n
    /\ touched' = t.acc
    /\ last' = call
    /\ prev' = Fields(This)
    /\ nops' = nops + 1
    /\ UNCHANGED others

DoRangeMin(l, r) ==
    LET t == rangeMin(This, l, r)
    IN  /\ Becomes(t, [op |-> "rangeMin", l |-> l, r |-> r, val |-> 0,
                       res |-> t.res])
        /\ naive' = naive

DoUpdateRange(l, r, val) ==
    LET t == updateRange(This, l, r, val)
    IN  /\ Becomes(t, [op |-> "updateRange", l |-> l, r |-> r, val |-> val,
                       res |-> 0])
        /\ naive' = [k \in DOMAIN naive |->
                        IF l <= k /\ k <= r THEN naive[k] + val ELSE naive[k]]

DoPointUpdate(pos, val) ==
    LET t == pointUpdate(This, pos, val)
    IN  /\ Becomes(t, [op |-> "pointUpdate", l |-> pos, r |-> pos, val |-> val,
                       res |-> 0])
        /\ naive' = [naive EXCEPT ![pos] = val]

\* The index ranges a caller may pass: 0 <= l <= r <= n-1.
Ranges(len) == {q \in (0 .. len - 1) \X (0 .. len - 1) : q[1] <= q[2]}

RangeMin ==
    /\ nops < MaxOps
    /\ \E q \in Ranges(n) : DoRangeMin(q[1], q[2])
    /\ UNCHANGED <<calls, alt>>

UpdateRange ==
    /\ nops < MaxOps
    /\ \E q \in Ranges(n), val \in Deltas : DoUpdateRange(q[1], q[2], val)
    /\ UNCHANGED <<calls, alt>>

PointUpdate ==
    /\ nops < MaxOps
    /\ \E pos \in 0 .. n - 1, val \in Values : DoPointUpdate(pos, val)
    /\ UNCHANGED <<calls, alt>>

Next == RangeMin \/ UpdateRange \/ PointUpdate

Spec == Init /\ [][Next]_vars

\* Calls of updateRange and rangeMin only.
NextRange == RangeMin \/ UpdateRange

SpecRange == Init /\ [][NextRange]_vars

\* The same calls, made on trees that have seen at most MaxPairOps of them.
PairRangeMin ==
    /\ nops < MaxPairOps
    /\ \E q \in Ranges(n) : DoRangeMin(q[1], q[2])
    /\ UNCHANGED <<calls, alt>>

PairUpdateRange ==
    /\ nops < MaxPairOps
    /\ \E q \in Ranges(n), val \in Deltas : DoUpdateRange(q[1], q[2], val)
    /\ UNCHANGED <<calls, alt>>

PairPointUpdate ==
    /\ nops < MaxPairOps
    /\ \E pos \in 0 .. n - 1, val \in Values : DoPointUpdate(pos, val)
    /\ UNCHANGED <<calls, alt>>

NextPair == PairRangeMin \/ PairUpdateRange \/ PairPointUpdate

SpecPair == Init /\ [][NextPair]_vars

\* ---------------------------------------------------- the usage example
\* segmentTreeExample builds one tree over ExampleArr and calls rangeMin,
\* pointUpdate and updateRange on it.  The driver makes calls with the
\* example's arguments (and a second choice of each), in any order.
ExQueries == {<<1, 4>>, <<0, 7>>}
ExPoints  == {<<2, 0>>, <<4, 9>>}
ExUpdates == {<<1, 3, 2>>, <<0, 7, -1>>}

ExRangeMin ==
    /\ nops < MaxCalls
    /\ \E q \in ExQueries : DoRangeMin(q[1], q[2])
    /\ calls' = Append(calls, last')
    /\ UNCHANGED alt

ExPointUpdate ==
    /\ nops < MaxCalls
    /\ \E p \in ExPoints : DoPointUpdate(p[1], p[2])
    /\ calls' = Append(calls, last')
    /\ UNCHANGED alt

ExUpdateRange ==
    /\ nops < MaxCalls
    /\ \E u \in ExUpdates : DoUpdateRange(u[1], u[2], u[3])
    /\ calls' = Append(calls, last')
    /\ UNCHANGED alt

NextExample == ExRangeMin \/ ExPointUpdate \/ ExUpdateRange

SpecExample == InitWith(ExampleArr) /\ [][NextExample]_vars

\* ------------------------------------------------- what the claims read
\* The object with the fields f, as a query or an update would find it.
Obj(f) == [ar |-> f.ar, segment_tree |-> f.segment_tree, lazy |-> f.lazy,
           n |-> n, acc |-> {}, res |-> 0]

\* The fields now.
Cur == Fields(This)

\* What rangeMin(q[1], q[2]) returns when called on the fields f.
Ans(f, q) == rangeMin(Obj(f), q[1], q[2]).res

\* The fields after updateRange(q[1], q[2], val) on the fields f.
After(f, q, val) == Fields(updateRange(Obj(f), q[1], q[2], val))

\* Minimum of a[l..r] by a plain scan.
NaiveMin(a, l, r) ==
    CHOOSE m \in {a[k] : k \in l .. r} : \A k \in l .. r : m <= a[k]

\* The nodes of the tree over 0..len-1, each as <<slot, lo, hi>>.
RECURSIVE NodesFrom(_, _, _)
NodesFrom(node, lo, hi) ==
    IF lo = hi THEN {<<node, lo, hi>>}
    ELSE LET mid == (lo + hi) \div 2
         IN  {<<node, lo, hi>>} \cup NodesFrom(2 * node, lo, mid)
                 \cup NodesFrom(2 * node + 1, mid + 1, hi)

Internal == {nd \in NodesFrom(1, 0, n - 1) : nd[2] < nd[3]}

\* The logical value of element k: its leaf's stored value with the pending
\* deltas of the root-to-leaf path applied.
RECURSIVE Logical(_, _, _, _, _)
Logical(f, node, lo, hi, k) ==
    IF lo = hi THEN f.segment_tree[node] + f.lazy[node]
    ELSE LET mid == (lo + hi) \div 2
         IN  f.lazy[node] + (IF k <= mid THEN Logical(f, 2 * node, lo, mid, k)
                             ELSE Logical(f, 2 * node + 1, mid + 1, hi, k))

Disjoint(q1, q2) == q1[2] < q2[1] \/ q2[2] < q1[1]

\* ----------------------------------------------------------------- C1
\* C1 (under SpecRange: updateRange and rangeMin calls only): every rangeMin
\* call returns the minimum over its range of the naive array, in which each
\* updateRange so far added val to every element of [l, r]; and so would a
\* rangeMin over any other range issued at that point.
C1_RangeMinMatchesNaive ==
    /\ last.op = "rangeMin" => last.res = NaiveMin(naive, last.l, last.r)
    /\ \A q \in Ranges(n) : Ans(Cur, q) = NaiveMin(naive, q[1], q[2])

\* A rangeMin on a three-element array whose answer an earlier updateRange
\* changed, and which had pending deltas to flush.
C1_Witness ==
    /\ n = 3
    /\ last.op = "rangeMin"
    /\ lazy # prev.lazy
    /\ naive # ar
    /\ last.res # NaiveMin(ar, last.l, last.r)
    /\ last.res = NaiveMin(naive, last.l, last.r)

\* ----------------------------------------------------------------- C2
\* C2: after pointUpdate(i, v), rangeMin(i, i) returns v, whatever calls
\* came before.
C2_PointUpdateSetsValue ==
    last.op = "pointUpdate" => Ans(Cur, <<last.l, last.l>>) = last.val

\* ----------------------------------------------------------------- C3
\* C3: pointUpdate(i, v) leaves rangeMin(ql, qh) as it was for every range
\* [ql, qh] that does not contain i.
C3_PointUpdateFrame ==
    last.op = "pointUpdate" =>
        \A q \in Ranges(n) :
            Disjoint(q, <<last.l, last.l>>) => Ans(Cur, q) = Ans(prev, q)

\* A pointUpdate that changed element i of a three-element array while
\* deltas of an earlier updateRange were still pending.
C3_Witness ==
    /\ n = 3
    /\ last.op = "pointUpdate"
    /\ \E i \in DOMAIN prev.lazy : prev.lazy[i] # 0
    /\ Ans(Cur, <<last.l, last.l>>) # Ans(prev, <<last.l, last.l>>)

\* ----------------------------------------------------------------- C4
\* C4: rangeMin(0, N-1) immediately after construction equals min(A).
C4_BuildMin ==
    /\ nops = 0 => Ans(Cur, <<0, n - 1>>) = NaiveMin(ar, 0, n - 1)
    /\ (nops = 1 /\ last.op = "rangeMin" /\ last.l = 0 /\ last.r = n - 1)
           => last.res = NaiveMin(ar, 0, n - 1)

\* The first call is rangeMin(0, 2) on an array whose minimum is its last
\* element alone.
C4_Witness ==
    /\ n = 3 /\ nops = 1
    /\ last.op = "rangeMin" /\ last.l = 0 /\ last.r = 2
    /\ ar[2] < ar[0] /\ ar[2] < ar[1]
    /\ last.res = ar[2]

\* ----------------------------------------------------------------- C5
\* C5: a rangeMin call changes no answer: right after it, the same call
\* returns the same result again, and every other rangeMin returns what it
\* would have returned before the call, although query flushes lazy deltas.
C5_ReadNoSideEffect ==
    last.op = "rangeMin" =>
        /\ Ans(Cur, <<last.l, last.r>>) = last.res
        /\ \A q \in Ranges(n) : Ans(Cur, q) = Ans(prev, q)

\* A rangeMin call that flushed pending deltas.
C5_Witness ==
    /\ last.op = "rangeMin"
    /\ lazy # prev.lazy
    /\ segment_tree # prev.segment_tree

ExampleCalls ==
    << [op |-> "rangeMin",    l |-> 1, r |-> 4, val |-> 0],
       [op |-> "rangeMin",    l |-> 0, r |-> 7, val |-> 0],
       [op |-> "pointUpdate", l |-> 2, r |-> 2, val |-> 0],
       [op |-> "rangeMin",    l |-> 1, r |-> 4, val |-> 0],
       [op |-> "updateRange", l |-> 1, r |-> 3, val |-> 2],
       [op |-> "rangeMin",    l |-> 1, r |-> 4, val |-> 0] >>

\* What the claim says each of them returns (0 for the two updates).
ExampleOut == <<2, 1, 0, 0, 0, 2>>

SameCall(c, e) == c.op = e.op /\ c.l = e.l /\ c.r = e.r /\ c.val = e.val

\* The first k calls made are the first k calls of the example.
FollowsExample(k) ==
    /\ k <= Len(calls) /\ k <= Len(ExampleCalls)
    /\ \A j \in 1 .. k : SameCall(calls[j], ExampleCalls[j])

\* C7 (under SpecExample): on the tree built from [1,3,2,4,5,6,7,8],
\* rangeMin(1,4) returns 2 and rangeMin(0,7) returns 1; after
\* pointUpdate(2, 0) rangeMin(1,4) returns 0; after updateRange(1, 3, 2)
\* rangeMin(1,4) returns 2.
C7_ExampleTrace ==
    \A k \in 1 .. Len(ExampleCalls) :
        FollowsExample(k) => calls[k].res = ExampleOut[k]

\* The example has run to its last call.
C7_Witness == FollowsExample(6) /\ Len(calls) = 6 /\ last.res = 2

\* ----------------------------------------------------------------- C8
\* C8 (under SpecRange): with N = 1, rangeMin(0, 0) after construction
\* returns the element, updateRange(0, 0, delta) raises what rangeMin(0, 0)
\* returns by delta, so that every rangeMin(0, 0) returns the element plus
\* the deltas so far, and no slot other than the root's is ever accessed.
C8_SingleElement ==
    n = 1 =>
        /\ touched \subseteq {1}
        /\ nops = 0 => Ans(Cur, <<0, 0>>) = ar[0]
        /\ (nops = 1 /\ last.op = "rangeMin") => last.res = ar[0]
        /\ last.op = "updateRange" =>
               Ans(Cur, <<0, 0>>) = Ans(prev, <<0, 0>>) + last.val
        /\ last.op = "rangeMin" => last.res = naive[0]

\* rangeMin(0, 0) right after updateRange(0, 0, 2) on a one-element array.
C8_Witness ==
    /\ n = 1 /\ nops = 2
    /\ last.op = "rangeMin"
    /\ naive[0] = ar[0] + 2
    /\ last.res = ar[0] + 2

\* ----------------------------------------------------------------- C9
\* C9 as stated: every internal node i with lazy[i] = 0 has
\* segment_tree[i] = min(segment_tree[2i], segment_tree[2i+1]).
C9_StoredMinOfChildren ==
    \A nd \in Internal :
        lazy[nd[1]] = 0 =>
            segment_tree[nd[1]] = Min(segment_tree[2 * nd[1]],
                                      segment_tree[2 * nd[1] + 1])

\* C9 as amended: every internal node i with lazy[i] = 0 has
\* segment_tree[i] = min over its two children c of
\* segment_tree[c] + lazy[c], the child's value with its own pending delta
\* applied.
C9_StoredMinOfSettledChildren ==
    \A nd \in Internal :
        lazy[nd[1]] = 0 =>
            segment_tree[nd[1]] =
                Min(segment_tree[2 * nd[1]] + lazy[2 * nd[1]],
                    segment_tree[2 * nd[1] + 1] + lazy[2 * nd[1] + 1])

\* An internal node with no pending delta of its own whose children both
\* wait for one, so that the children's stored values alone are stale.
C9_Witness ==
    \E nd \in Internal :
        /\ lazy[nd[1]] = 0
        /\ lazy[2 * nd[1]] # 0 /\ lazy[2 * nd[1] + 1] # 0
        /\ segment_tree[nd[1]] # Min(segment_tree[2 * nd[1]],
                                     segment_tree[2 * nd[1] + 1])

\* ---------------------------------------------------------------- C10
\* C10: for every index k, ar[k] equals the logical value of element k
\* (its leaf's value with the pending deltas of its path applied).
C10_BaseArrayInSync ==
    \A k \in 0 .. n - 1 : ar[k] = Logical(Cur, 1, 0, n - 1, k)

\* ---------------------------------------------------------------- C11
\* The variant of rangeUpdate the design notes allow: a node is flushed
\* only once its range is known to overlap [l, r]; a node outside [l, r]
\* is left as it is.
RECURSIVE rangeUpdateOnOverlap(_, _, _, _, _, _, _)
rangeUpdateOnOverlap(t, node, start, end, l, r, val) ==
    IF start > end \/ start > r \/ end < l
    THEN [t EXCEPT !.acc = @ \cup {node}]
    ELSE LET t0 == push(t, node, start, end)
         IN  IF start >= l /\ end <= r
             THEN push([t0 EXCEPT !.lazy[node] = @ + val], node, start, end)
             ELSE LET mid == (start + end) \div 2
                      t1  == rangeUpdateOnOverlap(t0, 2 * node, start, mid,
                                                  l, r, val)
                      t2  == rangeUpdateOnOverlap(t1, 2 * node + 1, mid + 1,
                                                  end, l, r, val)
                  IN  [t2 EXCEPT !.segment_tree[node] =
                                     Min(t2.segment_tree[2 * node],
                                         t2.segment_tree[2 * node + 1]),
                                 !.acc = @ \cup {node, 2 * node, 2 * node + 1}]

\* The variant's tree next to the source's: every call is made on both.
WithRes(t) == [ar |-> t.ar, segment_tree |-> t.segment_tree, lazy |-> t.lazy,
               res |-> t.res]

VarRangeMin ==
    /\ nops < MaxOps
    /\ \E q \in Ranges(n) :
          /\ DoRangeMin(q[1], q[2])
          /\ alt' = WithRes(rangeMin(Obj(alt), q[1], q[2]))
    /\ UNCHANGED calls

VarUpdateRange ==
    /\ nops < MaxOps
    /\ \E q \in Ranges(n), val \in Deltas :
          /\ DoUpdateRange(q[1], q[2], val)
          /\ alt' = WithRes(rangeUpdateOnOverlap(Obj(alt), 1, 0, n - 1,
                                                 q[1], q[2], val))
    /\ UNCHANGED calls

NextVariant == VarRangeMin \/ VarUpdateRange

InitVariant ==
    \E arr \in Arrays : InitObject(arr) /\ alt = Fields(Construct(arr))

SpecVariant == InitVariant /\ [][NextVariant]_vars

\* C11 as stated (under SpecVariant): the variant gives the same rangeMin
\* answers as the source rangeUpdate after every sequence of updateRange and
\* rangeMin calls: the call just made returned the same on both trees, and
\* so would a rangeMin over any range.
C11_VariantSameAnswers ==
    /\ last.op = "rangeMin" => alt.res = last.res
    /\ \A q \in Ranges(n) : Ans(alt, q) = Ans(Cur, q)

\* C11 as amended: the variant agrees with the source on rangeMin(k, k) for
\* every single index k (both trees keep every element's logical value);
\* over wider ranges it need not.
C11_VariantSameElements ==
    /\ (last.op = "rangeMin" /\ last.l = last.r) => alt.res = last.res
    /\ \A k \in 0 .. n - 1 :
          /\ Ans(alt, <<k, k>>) = Ans(Cur, <<k, k>>)
          /\ Logical(alt, 1, 0, n - 1, k) = Logical(Cur, 1, 0, n - 1, k)

\* The variant has left a node outside an update's range unflushed, and its
\* tree answers some range differently from the source's.
C11_Witness ==
    /\ last.op = "updateRange"
    /\ \E i \in DOMAIN lazy : alt.lazy[i] # 0 /\ lazy[i] = 0
    /\ \E q \in Ranges(n) : Ans(alt, q) # Ans(Cur, q)

\* ---------------------------------------------------------------- C12
\* C12: every slot of segment_tree and lazy read or written by buildTree,
\* push, rangeUpdate and query lies in [1, 4N-1], inside the 4N slots
\* allocated.
C12_SlotsInBounds ==
    /\ DOMAIN segment_tree = 0 .. 4 * n - 1
    /\ DOMAIN lazy = 0 .. 4 * n - 1
    /\ touched \subseteq 1 .. 4 * n - 1

\* A three-element tree all of whose nodes have been accessed, the last
\* call an updateRange that left deltas pending on child slots.
C12_Witness ==
    /\ n = 3
    /\ last.op = "updateRange"
    /\ touched = 1 .. 5
    /\ \E nd \in Internal : lazy[2 * nd[1]] # 0

\* ---------------------------------------------------------------- C13
\* C13: a rangeMin(l, r) call never returns the INF sentinel of the nodes
\* outside its range: it returns the logical value of some element of
\* [l, r]; and so would a rangeMin over any range in any reachable state.
C13_NeverSentinel ==
    /\ last.op = "rangeMin" =>
          /\ last.res # INF
          /\ \E k \in last.l .. last.r :
                last.res = Logical(prev, 1, 0, n - 1, k)
    /\ \A q \in Ranges(n) : Ans(Cur, q) # INF

\* rangeMin(1, 1) on a three-element array: the nodes of elements 0 and 2
\* lie outside and return the sentinel.
C13_Witness ==
    /\ n = 3
    /\ last.op = "rangeMin" /\ last.l = 1 /\ last.r = 1
    /\ last.res < INF

\* =================================================================== DSU
\* DSU (src/data_structures/dsu.hpp): parent, rank and size vectors over
\* the elements 0..n-1.  A DSU value d is the record of the three vectors.

\* DSU(int n)
DSU(len) == [parent |-> [i \in 0 .. len - 1 |-> i],
             rank   |-> [i \in 0 .. len - 1 |-> 0],
             size   |-> [i \in 0 .. len - 1 |-> 1]]

\* find(x) with path compression: the DSU afterwards (d) and the root (r).
RECURSIVE find(_, _)
find(d, x) ==
    IF d.parent[x] = x THEN [d |-> d, r |-> x]
    ELSE LET f == find(d, d.parent[x])
         IN  [d |-> [f.d EXCEPT !.parent[x] = f.r], r |-> f.r]

\* unite with the bug of linking x under y directly, without looking up
\* the two roots.
unite_RawLink(d, x, y) ==
    IF x = y THEN d
    ELSE [d EXCEPT !.parent[x] = y, !.size[y] = @ + d.size[x]]

unite(d, x, y) ==
    LET fx == find(d, x)
        fy == find(fx.d, y)
        px == fx.r
        py == fy.r
        d2 == fy.d
    IN  IF px = py THEN d2
        ELSE IF d2.rank[px] < d2.rank[py]
        THEN [d2 EXCEPT !.parent[px] = py, !.size[py] = @ + d2.size[px]]
        ELSE IF d2.rank[px] > d2.rank[py]
        THEN [d2 EXCEPT !.parent[py] = px, !.size[px] = @ + d2.size[py]]
        ELSE [d2 EXCEPT !.parent[py] = px, !.rank[px] = @ + 1,
                        !.size[px] = @ + d2.size[py]]

\* same(x, y): the DSU afterwards and the answer.
same(d, x, y) ==
    LET fx == find(d, x)
        fy == find(fx.d, y)
    IN  [d |-> fy.d, r |-> (fx.r = fy.r)]

\* getSize(x): the DSU afterwards and the answer.
getSize(d, x) ==
    LET fx == find(d, x)
    IN  [d |-> fx.d, r |-> fx.d.size[fx.r]]

\* The state of a DSU run: the object (obj), the reference partition (sets:
\* each element's class, named by its smallest member) and the last call
\* with its result (ret).
DsuElems == DOMAIN dsu.obj.parent

SegUnused ==
    /\ ar = Unused /\ segment_tree = Unused /\ lazy = Unused /\ n = Unused
    /\ touched = Unused /\ last = Unused /\ prev = Unused /\ naive = Unused
    /\ nops = Unused /\ calls = Unused /\ alt = Unused

InitDsu ==
    /\ \E len \in 1 .. MaxDsuN :
          dsu = [obj  |-> DSU(len),
                 sets |-> [i \in 0 .. len - 1 |-> i],
                 ret  |-> [op |-> "DSU", x |-> 0, y |-> 0, res |-> 0]]
    /\ SegUnused
    /\ bst = Unused /\ heap = Unused /\ binom = Unused /\ job = Unused

DsuUnite ==
    /\ \E x \in DsuElems, y \in DsuElems :
          dsu' = [obj  |-> unite(dsu.obj, x, y),
                  sets |-> [z \in DsuElems |->
                               IF dsu.sets[z] \in {dsu.sets[x], dsu.sets[y]}
                               THEN Min(dsu.sets[x], dsu.sets[y])
                               ELSE dsu.sets[z]],
                  ret  |-> [op |-> "unite", x |-> x, y |-> y, res |-> 0]]
    /\ UNCHANGED <<segVars, calls, alt, bst, heap, binom, job>>

DsuFind ==
    /\ \E x \in DsuElems :
          LET f == find(dsu.obj, x)
          IN  dsu' = [dsu EXCEPT !.obj = f.d,
                          !.ret = [op |-> "find", x |-> x, y |-> x, res |-> f.r]]
    /\ UNCHANGED <<segVars, calls, alt, bst, heap, binom, job>>

DsuSame ==
    /\ \E x \in DsuElems, y \in DsuElems :
          LET f == same(dsu.obj, x, y)
          IN  dsu' = [dsu EXCEPT !.obj = f.d,
                          !.ret = [op |-> "same", x |-> x, y |-> y, res |-> f.r]]
    /\ UNCHANGED <<segVars, calls, alt, bst, heap, binom, job>>

DsuGetSize ==
    /\ \E x \in DsuElems :
          LET f == getSize(dsu.obj, x)
          IN  dsu' = [dsu EXCEPT !.obj = f.d,
                          !.ret = [op |-> "getSize", x |-> x, y |-> x,
                                   res |-> f.r]]
    /\ UNCHANGED <<segVars, calls, alt, bst, heap, binom, job>>

NextDsu == DsuUnite \/ DsuFind \/ DsuSame \/ DsuGetSize

SpecDsu == InitDsu /\ [][NextDsu]_vars

\* ---------------------------------------------------------------- C14
\* The elements connected to x by the unite calls made so far.
ClassOf(x) == {z \in DsuElems : dsu.sets[z] = dsu.sets[x]}

\* C14 (under SpecDsu): same(x, y) is true exactly when x and y are
\* connected by the unite calls made so far, getSize(x) is the number of
\* elements of x's set and find(x) is a member of it: for the call just
\* made and for any call that could be made now.
C14_DsuMatchesPartition ==
    /\ dsu.ret.op = "same" =>
          (dsu.ret.res <=> dsu.sets[dsu.ret.x] = dsu.sets[dsu.ret.y])
    /\ dsu.ret.op = "getSize" =>
          dsu.ret.res = Cardinality(ClassOf(dsu.ret.x))
    /\ dsu.ret.op = "find" => dsu.ret.res \in ClassOf(dsu.ret.x)
    /\ \A x \in DsuElems :
          /\ getSize(dsu.obj, x).r = Cardinality(ClassOf(x))
          /\ \A y \in DsuElems :
                same(dsu.obj, x, y).r <=> dsu.sets[x] = dsu.sets[y]

\* same(x, y) answered true for two different elements of a set of three
\* whose tree has a path of length two to compress, with an element outside.
C14_Witness ==
    /\ dsu.ret.op = "same" /\ dsu.ret.res = TRUE /\ dsu.ret.x # dsu.ret.y
    /\ Cardinality(ClassOf(dsu.ret.x)) >= 3
    /\ \E z \in DsuElems : z \notin ClassOf(dsu.ret.x)
    /\ \E i \in DsuElems : dsu.obj.rank[i] = 1

\* ==================================================================== BST
\* BinarySearchTree (src/data_structures/binary_search_tree.hpp).  A
\* TreeNode* is the empty tuple (nullptr) or <<val, left, right>>; every
\* node has one owner, so a pointer is modelled by the subtree it points to.
Nullptr == <<>>

TreeNode(v) == <<v, Nullptr, Nullptr>>

ValOf(node) == node[1]

LeftOf(node) == node[2]

RightOf(node) == node[3]

RECURSIVE searchHelper(_, _)
searchHelper(node, val) ==
    IF node = Nullptr \/ ValOf(node) = val THEN node
    ELSE IF val < ValOf(node) THEN searchHelper(LeftOf(node), val)
    ELSE searchHelper(RightOf(node), val)

RECURSIVE insertHelper(_, _)
insertHelper(node, val) ==
    IF node = Nullptr THEN TreeNode(val)
    ELSE IF val < ValOf(node)
    THEN <<ValOf(node), insertHelper(LeftOf(node), val), RightOf(node)>>
    ELSE IF val > ValOf(node)
    THEN <<ValOf(node), LeftOf(node), insertHelper(RightOf(node), val)>>
    ELSE node

RECURSIVE findMinNode(_)
findMinNode(node) ==
    IF LeftOf(node) # Nullptr THEN findMinNode(LeftOf(node)) ELSE node

RECURSIVE deleteHelper(_, _)

\* deleteHelper with the bug of copying the right subtree's minimum into a
\* node with two children without removing it from the right subtree.
deleteHelper_KeepsCopied(node, val) ==
    IF node = Nullptr THEN node
    ELSE IF val < ValOf(node)
    THEN <<ValOf(node), deleteHelper(LeftOf(node), val), RightOf(node)>>
    ELSE IF val > ValOf(node)
    THEN <<ValOf(node), LeftOf(node), deleteHelper(RightOf(node), val)>>
    ELSE IF LeftOf(node) = Nullptr THEN RightOf(node)
    ELSE IF RightOf(node) = Nullptr THEN LeftOf(node)
    ELSE <<ValOf(findMinNode(RightOf(node))), LeftOf(node), RightOf(node)>>

deleteHelper(node, val) ==
    IF node = Nullptr THEN node
    ELSE IF val < ValOf(node)
    THEN <<ValOf(node), deleteHelper(LeftOf(node), val), RightOf(node)>>
    ELSE IF val > ValOf(node)
    THEN <<ValOf(node), LeftOf(node), deleteHelper(RightOf(node), val)>>
    ELSE IF LeftOf(node) = Nullptr THEN RightOf(node)
    ELSE IF RightOf(node) = Nullptr THEN LeftOf(node)
    ELSE LET pred == findMinNode(RightOf(node))
         IN  <<ValOf(pred), LeftOf(node),
               deleteHelper(RightOf(node), ValOf(pred))>>

RECURSIVE inOrderHelper(_, _)
inOrderHelper(node, result) ==
    IF node = Nullptr THEN result
    ELSE inOrderHelper(RightOf(node),
                       Append(inOrderHelper(LeftOf(node), result),
                              ValOf(node)))

inOrderTraversal(root) == inOrderHelper(root, <<>>)

\* The while loop of findPredecessor: the rightmost node below pred.
RECURSIVE Rightmost(_)
Rightmost(pred) ==
    IF RightOf(pred) # Nullptr THEN Rightmost(RightOf(pred)) ELSE pred

findPredecessor(root, val) ==
    LET node == searchHelper(root, val)
    IN  IF node = Nullptr \/ LeftOf(node) = Nullptr THEN -1
        ELSE ValOf(Rightmost(LeftOf(node)))

\* The state of a BST run: root, the set of values inserted and not deleted
\* since (keys), and the last call (ret) with the root it was made on (was).
Keys == 1 .. MaxKey

BstCall(op, x, res) == [op |-> op, x |-> x, res |-> res, was |-> bst.root]

InitBst ==
    /\ bst = [root |-> Nullptr, keys |-> {},
              ret |-> [op |-> "BinarySearchTree", x |-> 0, res |-> 0,
                       was |-> Nullptr]]
    /\ SegUnused
    /\ dsu = Unused /\ heap = Unused /\ binom = Unused /\ job = Unused

BstInsert ==
    /\ \E v \in Keys :
          bst' = [root |-> insertHelper(bst.root, v),
                  keys |-> bst.keys \cup {v},
                  ret  |-> BstCall("insert", v, 0)]
    /\ UNCHANGED <<segVars, calls, alt, dsu, heap, binom, job>>

BstDeleteNode ==
    /\ \E v \in Keys :
          bst' = [root |-> deleteHelper(bst.root, v),
                  keys |-> bst.keys \ {v},
                  ret  |-> BstCall("deleteNode", v, 0)]
    /\ UNCHANGED <<segVars, calls, alt, dsu, heap, binom, job>>

BstInOrderTraversal ==
    /\ bst' = [bst EXCEPT !.ret = BstCall("inOrderTraversal", 0,
                                          inOrderTraversal(bst.root))]
    /\ UNCHANGED <<segVars, calls, alt, dsu, heap, binom, job>>

BstFindPredecessor ==
    /\ \E v \in Keys :
          bst' = [bst EXCEPT !.ret = BstCall("findPredecessor", v,
                                             findPredecessor(bst.root, v))]
    /\ UNCHANGED <<segVars, calls, alt, dsu, heap, binom, job>>

NextBst ==
    BstInsert \/ BstDeleteNode \/ BstInOrderTraversal \/ BstFindPredecessor

SpecBst == InitBst /\ [][NextBst]_vars

\* ---------------------------------------------------------------- C15
\* The values stored in a tree.
RECURSIVE ValuesIn(_)
ValuesIn(node) ==
    IF node = Nullptr THEN {}
    ELSE {ValOf(node)} \cup ValuesIn(LeftOf(node)) \cup ValuesIn(RightOf(node))

\* The ordering property at every node.
RECURSIVE Ordered(_)
Ordered(node) ==
    \/ node = Nullptr
    \/ /\ \A v \in ValuesIn(LeftOf(node)) : v < ValOf(node)
       /\ \A v \in ValuesIn(RightOf(node)) : v > ValOf(node)
       /\ Ordered(LeftOf(node))
       /\ Ordered(RightOf(node))

StrictlyIncreasing(sq) == \A i \in 1 .. Len(sq) - 1 : sq[i] < sq[i + 1]

\* C15 (under SpecBst): after any sequence of insert and deleteNode calls
\* the ordering property holds at every node, and inOrderTraversal returns,
\* strictly increasing, exactly the values inserted and not deleted since.
C15_BstOrderedAndComplete ==
    /\ Ordered(bst.root)
    /\ LET sq == inOrderTraversal(bst.root)
       IN  /\ StrictlyIncreasing(sq)
           /\ {sq[i] : i \in 1 .. Len(sq)} = bst.keys
    /\ bst.ret.op = "inOrderTraversal" =>
          /\ StrictlyIncreasing(bst.ret.res)
          /\ {bst.ret.res[i] : i \in 1 .. Len(bst.ret.res)} = bst.keys

\* deleteNode has just removed a value whose node had two children, the
\* right one with a left child of its own.
C15_Witness ==
    /\ bst.ret.op = "deleteNode"
    /\ LET node == searchHelper(bst.ret.was, bst.ret.x)
       IN  /\ node # Nullptr
           /\ LeftOf(node) # Nullptr
           /\ RightOf(node) # Nullptr
           /\ LeftOf(RightOf(node)) # Nullptr
    /\ Cardinality(bst.keys) = 3

\* ---------------------------------------------------------------- C16
\* The largest stored value below val, or -1 when val is absent or is the
\* smallest stored value.
InOrderPredecessor(keys, val) ==
    LET below == {k \in keys : k < val}
    IN  IF val \notin keys \/ below = {} THEN -1
        ELSE CHOOSE k \in below : \A j \in below : j <= k

\* C16 (under SpecBst): findPredecessor(val) returns the in-order
\* predecessor of val for every tree shape and every val stored that is not
\* the minimum, and -1 only when val is absent or has no predecessor.
C16_FindPredecessor ==
    bst.ret.op = "findPredecessor" =>
        bst.ret.res = InOrderPredecessor(bst.keys, bst.ret.x)

\* =================================================================== heap
\* HeapSort::insert / extractMax (src/algorithms/sorting/heap_sort.hpp) on a
\* caller-owned vector arr and size n.  arr is a function on 0 .. sz(arr)-1.
sz(arr) == Cardinality(DOMAIN arr)

pb(arr, key) ==
    [i \in 0 .. sz(arr) |-> IF i < sz(arr) THEN arr[i] ELSE key]

pop_back(arr) == [i \in 0 .. sz(arr) - 2 |-> arr[i]]

swap(arr, i, j) == [arr EXCEPT ![i] = arr[j], ![j] = arr[i]]

RECURSIVE heapify(_, _, _)
heapify(arr, len, i) ==
    LET left     == 2 * i + 1
        right    == 2 * i + 2
        largest1 == IF left < len /\ arr[left] > arr[i] THEN left ELSE i
        largest  == IF right < len /\ arr[right] > arr[largest1]
                    THEN right ELSE largest1
    IN  IF largest # i THEN heapify(swap(arr, i, largest), len, largest)
        ELSE arr

\* The while loop of insert, from index i.
RECURSIVE SiftUp(_, _)
SiftUp(arr, i) ==
    IF i > 0 /\ arr[(i - 1) \div 2] < arr[i]
    THEN SiftUp(swap(arr, i, (i - 1) \div 2), (i - 1) \div 2)
    ELSE arr

\* insert(arr, n, key): the new arr and n.
insert(arr, len, key) ==
    [arr |-> SiftUp(pb(arr, key), len), n |-> len + 1]

\* extractMax(arr, n): the new arr and n, and the value returned.
extractMax(arr, len) ==
    IF len <= 0 THEN [arr |-> arr, n |-> len, r |-> -1]
    ELSE IF len = 1 THEN [arr |-> arr, n |-> len - 1, r |-> arr[0]]
    ELSE [arr |-> heapify(pop_back([arr EXCEPT ![0] = arr[len - 1]]),
                          len - 1, 0),
          n   |-> len - 1,
          r   |-> arr[0]]

isMaxHeap(arr, len) ==
    \A i \in 0 .. len - 1 :
        /\ (2 * i + 1 < len => arr[i] >= arr[2 * i + 1])
        /\ (2 * i + 2 < len => arr[i] >= arr[2 * i + 2])

HeapKeys == {1, 2, 3}

\* keys counts, per key, the insertions not yet matched by an extraction of
\* the largest remaining key; ret is the last call, was the keys before it.
NoKeys == [k \in HeapKeys |-> 0]

Remaining(keys) == {k \in HeapKeys : keys[k] > 0}

MaxKeyOf(keys) ==
    IF Remaining(keys) = {} THEN -1
    ELSE CHOOSE k \in Remaining(keys) : \A j \in Remaining(keys) : j <= k

InitHeap ==
    /\ heap = [arr |-> <<>>, n |-> 0, keys |-> NoKeys, calls |-> 0,
               ret |-> [op |-> "init", key |-> 0, res |-> 0, was |-> NoKeys]]
    /\ SegUnused
    /\ dsu = Unused /\ bst = Unused /\ binom = Unused /\ job = Unused

HeapInsert ==
    /\ heap.calls < MaxHeapCalls
    /\ \E key \in HeapKeys :
          LET h == insert(heap.arr, heap.n, key)
          IN  heap' = [arr |-> h.arr, n |-> h.n,
                       keys |-> [heap.keys EXCEPT ![key] = @ + 1],
                       calls |-> heap.calls + 1,
                       ret |-> [op |-> "insert", key |-> key, res |-> 0,
                                was |-> heap.keys]]
    /\ UNCHANGED <<segVars, calls, alt, dsu, bst, binom, job>>

HeapExtractMax ==
    /\ heap.calls < MaxHeapCalls
    /\ LET h == extractMax(heap.arr, heap.n)
           m == MaxKeyOf(heap.keys)
       IN  heap' = [arr |-> h.arr, n |-> h.n,
                    keys |-> IF m = -1 THEN heap.keys
                             ELSE [heap.keys EXCEPT ![m] = @ - 1],
                    calls |-> heap.calls + 1,
                    ret |-> [op |-> "extractMax", key |-> 0, res |-> h.r,
                             was |-> heap.keys]]
    /\ UNCHANGED <<segVars, calls, alt, dsu, bst, binom, job>>

NextHeap == HeapInsert \/ HeapExtractMax

SpecHeap == InitHeap /\ [][NextHeap]_vars

\* ---------------------------------------------------------------- C17
\* How often each key occurs in arr[0 .. len-1].
KeysOf(arr, len) ==
    [k \in HeapKeys |-> Cardinality({i \in 0 .. len - 1 : arr[i] = k})]

\* C17 (under SpecHeap): starting from an empty arr with n = 0, each
\* extractMax returns the maximum of the keys inserted and not yet extracted
\* (-1 when none remain), and after every call sz(arr) = n and arr[0..n-1]
\* is a valid max-heap of exactly those keys.
C17_HeapContract ==
    /\ heap.ret.op = "extractMax" => heap.ret.res = MaxKeyOf(heap.ret.was)
    /\ sz(heap.arr) = heap.n
    /\ isMaxHeap(heap.arr, heap.n)
    /\ KeysOf(heap.arr, heap.n) = heap.keys

\* ============================================================== binomial
\* ModularArithmetic (src/algorithms/math/modular_arithmetic.hpp); all
\* operands are non-negative here, where C++ % and TLA+ % agree.
add(a, b, mod) == ((a % mod) + (b % mod)) % mod

multiply(a, b, mod) == ((a % mod) * (b % mod)) % mod

\* The while loop of power, from the given result and (reduced) base.
RECURSIVE PowerLoop(_, _, _, _)
PowerLoop(result, base, exponent, mod) ==
    IF exponent > 0
    THEN PowerLoop(IF exponent % 2 = 1 THEN (result * base) % mod ELSE result,
                   (base * base) % mod, exponent \div 2, mod)
    ELSE result

power(base, exponent, mod) == PowerLoop(1, base % mod, exponent, mod)

modInverse(a, mod) == power(a, mod - 2, mod)

divide(a, b, mod) == multiply(a, modInverse(b, mod), mod)

\* BinomialCoefficients (src/algorithms/math/binomial_coefficients.hpp).
\* The for loop of binomial, from index i with k already folded by symmetry.
RECURSIVE BinomialLoop(_, _, _, _, _)
BinomialLoop(result, i, nn, k, mod) ==
    IF i < k
    THEN BinomialLoop(divide(multiply(result, nn - i, mod), i + 1, mod),
                      i + 1, nn, k, mod)
    ELSE result

binomial(nn, k, mod) ==
    IF k > nn \/ k < 0 THEN 0
    ELSE IF k = 0 \/ k = nn THEN 1
    ELSE BinomialLoop(1, 0, nn, IF k > nn - k THEN nn - k ELSE k, mod)

\* Row i of the triangle initialize(maxN, mod) builds: maxN + 1 entries.
RECURSIVE PascalRow(_, _, _)
PascalRow(i, maxN, mod) ==
    [j \in 0 .. maxN |->
        IF j = 0 THEN 1
        ELSE IF i > 0 /\ j <= i
        THEN add(PascalRow(i - 1, maxN, mod)[j - 1],
                 PascalRow(i - 1, maxN, mod)[j], mod)
        ELSE 0]

\* initialize(maxN, mod) on the statics c = [pascalTriangle, initialized].
initialize(c, maxN, mod) ==
    IF c.initialized THEN c
    ELSE [pascalTriangle |-> [i \in 0 .. maxN |-> PascalRow(i, maxN, mod)],
          initialized    |-> TRUE]

\* What an out-of-bounds vector read can yield when it does not crash: some
\* value; a few stand for all of them.
Garbage == {-1, 0, 1, 2}

\* The outcomes of binomialPascal(n, k, mod) on the statics c: the statics
\* after the call, the value returned, whether the read was outside the
\* vector (undefined behaviour: any value, or a crash).
binomialPascal(c, nn, k, mod) ==
    IF k > nn \/ k < 0
    THEN {[c |-> c, res |-> 0, oob |-> FALSE, crashed |-> FALSE]}
    ELSE IF nn <= MAX_N
    THEN LET c1 == initialize(c, nn, mod)
         IN  IF nn \in DOMAIN c1.pascalTriangle
                /\ k \in DOMAIN c1.pascalTriangle[nn]
             THEN {[c |-> c1, res |-> c1.pascalTriangle[nn][k],
                    oob |-> FALSE, crashed |-> FALSE]}
             ELSE {[c |-> c1, res |-> g, oob |-> TRUE, crashed |-> FALSE] :
                       g \in Garbage}
                  \cup {[c |-> c1, res |-> 0, oob |-> TRUE, crashed |-> TRUE]}
    ELSE {[c |-> c, res |-> binomial(nn, k, mod), oob |-> FALSE,
           crashed |-> FALSE]}

Mods == {2, 3}

InitBinom ==
    /\ binom = [pascalTriangle |-> <<>>, initialized |-> FALSE,
                ret |-> [op |-> "start", n |-> 0, k |-> 0, mod |-> 2,
                         res |-> 0, oob |-> FALSE, crashed |-> FALSE]]
    /\ SegUnused
    /\ dsu = Unused /\ bst = Unused /\ heap = Unused /\ job = Unused

BinomialPascal ==
    /\ ~binom.ret.crashed
    /\ \E nn \in 0 .. MaxBinomN, k \in 0 .. MaxBinomN, mod \in Mods :
          \E out \in binomialPascal([pascalTriangle |-> binom.pascalTriangle,
                                     initialized |-> binom.initialized],
                                    nn, k, mod) :
             binom' = [pascalTriangle |-> out.c.pascalTriangle,
                       initialized    |-> out.c.initialized,
                       ret |-> [op |-> "binomialPascal", n |-> nn, k |-> k,
                                mod |-> mod, res |-> out.res,
                                oob |-> out.oob, crashed |-> out.crashed]]
    /\ UNCHANGED <<segVars, calls, alt, dsu, bst, heap, job>>

NextBinom == BinomialPascal

SpecBinom == InitBinom /\ [][NextBinom]_vars

\* ---------------------------------------------------------------- C18
\* C(n, k), exactly.
RECURSIVE Choose(_, _)
Choose(nn, k) ==
    IF k < 0 \/ k > nn THEN 0
    ELSE IF k = 0 \/ k = nn THEN 1
    ELSE Choose(nn - 1, k - 1) + Choose(nn - 1, k)

\* C18 (under SpecBinom): in any sequence of calls with 0 <= k <= n <= MAX_N
\* binomialPascal(n, k, mod) returns C(n, k) % mod whatever n and mod the
\* earlier calls passed: no call reads outside the cache, none returns a
\* value computed for another n bound or modulus.
C18_PascalIndependentOfHistory ==
    (binom.ret.op = "binomialPascal" /\ binom.ret.k <= binom.ret.n) =>
        /\ ~binom.ret.oob
        /\ ~binom.ret.crashed
        /\ binom.ret.res = Choose(binom.ret.n, binom.ret.k) % binom.ret.mod

\* ============================================================== Dijkstra
\* Dijkstra::shortestPath (src/algorithms/graph/dijkstra.hpp).  graph is a
\* function from 0 .. n-1 to sequences of <<v, w>> (vector<vpii>), dist a
\* function on 0 .. n-1, pq the set of <<d, u>> pairs in the priority queue
\* (every push carries a strictly smaller dist[v], so no pair is pushed
\* twice).
\* pq.top() under greater<pii>: the least pair, by d and then by u.
Top(pq) ==
    CHOOSE p \in pq :
        \A q \in pq : p[1] < q[1] \/ (p[1] = q[1] /\ p[2] <= q[2])

\* The for loop over graph[u], from the i-th edge on.
RECURSIVE Relax(_, _, _, _)

\* Relax with the bug of not pushing the vertex it has just improved.
Relax_NoPush(graph, u, i, s) ==
    IF i > Len(graph[u]) THEN s
    ELSE LET v == graph[u][i][1]
             w == graph[u][i][2]
         IN  IF s.dist[u] + w < s.dist[v]
             THEN Relax(graph, u, i + 1,
                        [s EXCEPT !.dist[v] = s.dist[u] + w])
             ELSE Relax(graph, u, i + 1, s)

Relax(graph, u, i, s) ==
    IF i > Len(graph[u]) THEN s
    ELSE LET v == graph[u][i][1]
             w == graph[u][i][2]
         IN  IF s.dist[u] + w < s.dist[v]
             THEN Relax(graph, u, i + 1,
                        [s EXCEPT !.dist[v] = s.dist[u] + w,
                                  !.pq = @ \cup {<<s.dist[u] + w, v>>}])
             ELSE Relax(graph, u, i + 1, s)

\* The while loop; skipped counts the entries dropped by the continue.
RECURSIVE PqLoop(_, _)
PqLoop(graph, s) ==
    IF s.pq = {} THEN s
    ELSE LET d  == Top(s.pq)[1]
             u  == Top(s.pq)[2]
             s1 == [s EXCEPT !.pq = @ \ {Top(s.pq)}]
         IN  IF d > s1.dist[u]
             THEN PqLoop(graph, [s1 EXCEPT !.skipped = @ + 1])
             ELSE PqLoop(graph, Relax(graph, u, 1, s1))

shortestPath(graph, source) ==
    PqLoop(graph,
           [dist    |-> [v \in DOMAIN graph |-> IF v = source THEN 0 ELSE INF],
            pq      |-> {<<0, source>>},
            skipped |-> 0])

\* Edge weights: zero, positive, and one as large as the INF sentinel.
Weights == {0, 1, INF}

NotRun == [dist |-> <<>>, pq |-> {}, skipped |-> 0]

\* A run: the caller builds a graph of some size edge by edge (as
\* graphAlgorithmsExample fills graph[u]), adjacency lists in
\* increasing order of the target, and then calls shortestPath on it once.
InitGraph ==
    /\ \E nv \in 1 .. MaxV :
          job = [graph |-> [u \in 0 .. nv - 1 |-> <<>>], edges |-> 0,
                 source |-> 0, out |-> NotRun]
    /\ SegUnused
    /\ dsu = Unused /\ bst = Unused /\ heap = Unused /\ binom = Unused

AddEdge ==
    /\ job.out = NotRun
    /\ job.edges < MaxEdges
    /\ \E u \in DOMAIN job.graph, v \in DOMAIN job.graph, w \in Weights :
          /\ \A i \in 1 .. Len(job.graph[u]) : job.graph[u][i][1] < v
          /\ \A x \in DOMAIN job.graph :
                x > u => job.graph[x] = <<>>
          /\ job' = [graph  |-> [job.graph EXCEPT ![u] = Append(@, <<v, w>>)],
                     edges  |-> job.edges + 1,
                     source |-> 0,
                     out    |-> NotRun]
    /\ UNCHANGED <<segVars, calls, alt, dsu, bst, heap, binom>>

ShortestPath ==
    /\ job.out = NotRun
    /\ \E source \in DOMAIN job.graph :
          job' = [job EXCEPT !.source = source,
                             !.out = shortestPath(job.graph, source)]
    /\ UNCHANGED <<segVars, calls, alt, dsu, bst, heap, binom>>

NextDijkstra == AddEdge \/ ShortestPath

SpecDijkstra == InitGraph /\ [][NextDijkstra]_vars

\* ---------------------------------------------------------------- C19
\* The edges <<u, v, w>> of a graph.
EdgesOf(graph) ==
    UNION {{<<u, graph[u][i][1], graph[u][i][2]>> :
               i \in 1 .. Len(graph[u])} : u \in DOMAIN graph}

\* Path weights are computed exactly below Far and held at Far from there.
Far == 2 * INF

SatAdd(a, w) == IF a >= Far - w THEN Far ELSE a + w

Least(S) == CHOOSE a \in S : \A b \in S : a <= b

\* Per vertex, the least weight of a walk of at most k edges from source
\* (Far when there is none below Far).
RECURSIVE Walks(_, _, _)
Walks(graph, source, k) ==
    IF k = 0 THEN [v \in DOMAIN graph |-> IF v = source THEN 0 ELSE Far]
    ELSE LET D == Walks(graph, source, k - 1)
         IN  [v \in DOMAIN graph |->
                 Least({D[v]} \cup {SatAdd(D[e[1]], e[3]) :
                                       e \in {f \in EdgesOf(graph) : f[2] = v}})]

PathWeight(graph, source) ==
    Walks(graph, source, Cardinality(DOMAIN graph) - 1)

\* The vertices reachable from source by at most k edges.
RECURSIVE ReachIn(_, _, _)
ReachIn(graph, source, k) ==
    IF k = 0 THEN {source}
    ELSE LET R == ReachIn(graph, source, k - 1)
         IN  R \cup {e[2] : e \in {f \in EdgesOf(graph) : f[1] \in R}}

Reachable(graph, source) ==
    ReachIn(graph, source, Cardinality(DOMAIN graph) - 1)

HasRun == DOMAIN job.out.dist # {}

TupleLess(a, b) ==
    \/ a[1] < b[1]
    \/ a[1] = b[1] /\ a[2] < b[2]
    \/ a[1] = b[1] /\ a[2] = b[2] /\ a[3] < b[3]

\* sq without its i-th element.
Without(sq, i) == [j \in 1 .. Len(sq) - 1 |-> IF j < i THEN sq[j] ELSE sq[j + 1]]

\* sort with the bug of leaving the vector as it is.
sort_Unsorted(sq) == sq

\* sort(all(sortedEdges)): the elements in non-decreasing order.
RECURSIVE sort(_)
sort(sq) ==
    IF sq = <<>> THEN <<>>
    ELSE LET i == CHOOSE k \in 1 .. Len(sq) :
                      \A j \in 1 .. Len(sq) : ~TupleLess(sq[j], sq[k])
         IN  <<sq[i]>> \o sort(Without(sq, i))

\* The for loop over sortedEdges, from the i-th edge on; chosen lists the
\* positions (in sortedEdges) of the edges taken.
RECURSIVE MstLoop(_, _, _)
MstLoop(sortedEdges, i, s) ==
    IF i > Len(sortedEdges) THEN s
    ELSE LET w  == sortedEdges[i][1]
             u  == sortedEdges[i][2]
             v  == sortedEdges[i][3]
             sm == same(s.dsu, u, v)
         IN  IF ~sm.r
             THEN MstLoop(sortedEdges, i + 1,
                          [dsu       |-> unite(sm.d, u, v),
                           mstWeight |-> s.mstWeight + w,
                           mstEdges  |-> Append(s.mstEdges, <<u, v>>),
                           chosen    |-> Append(s.chosen, i)])
             ELSE MstLoop(sortedEdges, i + 1, [s EXCEPT !.dsu = sm.d])

findMST(edges, nn) ==
    LET sortedEdges == sort(edges)
        s == MstLoop(sortedEdges, 1,
                     [dsu |-> DSU(nn), mstWeight |-> 0, mstEdges |-> <<>>,
                      chosen |-> <<>>])
    IN  [mstWeight |-> s.mstWeight, mstEdges |-> s.mstEdges,
         sortedEdges |-> sortedEdges, chosen |-> s.chosen]

MstWeights == {-1, 1}

NoMst == [mstWeight |-> 0, mstEdges |-> <<>>, sortedEdges |-> <<>>,
          chosen |-> <<>>, called |-> FALSE]

Reverse(sq) == [i \in 1 .. Len(sq) |-> sq[Len(sq) + 1 - i]]

\* A run: the caller collects up to MaxMstEdges edges over n vertices and
\* calls findMST once, on the list in non-decreasing or in non-increasing
\* order (the list is kept non-decreasing while it is collected).
InitMst ==
    /\ \E nn \in 1 .. MaxMstN :
          job = [n |-> nn, edges |-> <<>>, out |-> NoMst]
    /\ SegUnused
    /\ dsu = Unused /\ bst = Unused /\ heap = Unused /\ binom = Unused

MstAddEdge ==
    /\ ~job.out.called
    /\ Len(job.edges) < MaxMstEdges
    /\ \E w \in MstWeights, u \in 0 .. job.n - 1, v \in 0 .. job.n - 1 :
          /\ job.edges # <<>> =>
                ~TupleLess(<<w, u, v>>, job.edges[Len(job.edges)])
          /\ job' = [job EXCEPT !.edges = Append(@, <<w, u, v>>)]
    /\ UNCHANGED <<segVars, calls, alt, dsu, bst, heap, binom>>

FindMST ==
    /\ ~job.out.called
    /\ \E edges \in {job.edges, Reverse(job.edges)} :
          LET r == findMST(edges, job.n)
          IN  job' = [n |-> job.n, edges |-> edges,
                      out |-> [mstWeight |-> r.mstWeight,
                               mstEdges |-> r.mstEdges,
                               sortedEdges |-> r.sortedEdges,
                               chosen |-> r.chosen, called |-> TRUE]]
    /\ UNCHANGED <<segVars, calls, alt, dsu, bst, heap, binom>>

NextKruskal == MstAddEdge \/ FindMST

SpecKruskal == InitMst /\ [][NextKruskal]_vars

\* ---------------------------------------------------------------- C20
\* The vertices joined to a vertex of S by the pairs in P, read as
\* undirected edges.
RECURSIVE Joined(_, _)
Joined(S, P) ==
    LET T == S \cup {p[2] : p \in {q \in P : q[1] \in S}}
                \cup {p[1] : p \in {q \in P : q[2] \in S}}
    IN  IF T = S THEN S ELSE Joined(T, P)

\* The components of the graph on 0 .. nn-1 with the pairs P as edges.
Components(P, nn) == {Joined({x}, P) : x \in 0 .. nn - 1}

\* The pairs <<u, v>> of the edges of sq at the positions in I.
PairsAt(sq, I) == {<<sq[i][2], sq[i][3]>> : i \in I}

RECURSIVE WeightAt(_, _)
WeightAt(sq, I) ==
    IF I = {} THEN 0
    ELSE LET i == CHOOSE k \in I : TRUE
         IN  sq[i][1] + WeightAt(sq, I \ {i})

\* The edges of sq at the positions in I form a spanning forest of the graph
\* of all of sq: they connect what sq connects, and without a cycle (as many
\* edges as vertices less components).
SpanningForest(sq, I, nn) ==
    /\ Components(PairsAt(sq, I), nn) = Components(PairsAt(sq, DOMAIN sq), nn)
    /\ Cardinality(I) = nn - Cardinality(Components(PairsAt(sq, I), nn))

Range(sq) == {sq[i] : i \in DOMAIN sq}

\* C20 (under SpecKruskal): the edges findMST returns are acyclic and connect
\* exactly the vertex pairs connected in the input graph (a spanning forest);
\* the returned weight is the sum of the chosen edges' weights and is minimal
\* among all spanning forests of the graph.
C20_MinimumSpanningForest ==
    job.out.called =>
        LET sq == job.out.sortedEdges
            I  == Range(job.out.chosen)
        IN  /\ Range(sq) = Range(job.edges) /\ Len(sq) = Len(job.edges)
            /\ Cardinality(I) = Len(job.out.chosen)
            /\ job.out.mstEdges =
                  [k \in DOMAIN job.out.chosen |->
                      <<sq[job.out.chosen[k]][2], sq[job.out.chosen[k]][3]>>]
            /\ SpanningForest(sq, I, job.n)
            /\ Len(job.out.mstEdges) =
                  job.n - Cardinality(Components(Range(job.out.mstEdges), job.n))
            /\ job.out.mstWeight = WeightAt(sq, I)
            /\ \A J \in SUBSET DOMAIN sq :
                  SpanningForest(sq, J, job.n) =>
                      job.out.mstWeight <= WeightAt(sq, J)

\* findMST was called on a list in decreasing order whose edges form a
\* triangle of two weights, and left the heaviest edge out.
C20_Witness ==
    /\ job.out.called
    /\ job.n = 3
    /\ Len(job.edges) = 3
    /\ job.edges # job.out.sortedEdges
    /\ Cardinality(Components(PairsAt(job.edges, DOMAIN job.edges), 3)) = 1
    /\ Cardinality(PairsAt(job.edges, DOMAIN job.edges)) = 3
    /\ \A i \in 1 .. 3 : job.edges[i][2] # job.edges[i][3]
    /\ job.out.mstWeight = -2
    /\ job.edges[1][1] = 1

\* ========================================================== Bellman-Ford
\* BellmanFord::shortestPath (src/algorithms/graph/bellman_ford.hpp).  edges
\* is a sequence of <<u, v, w>>, dist a function on 0 .. n-1.
\* One pass of "for (auto& edge : edges)" of the relaxation loop, from the
\* j-th edge on.
RECURSIVE RelaxEdges(_, _, _)

\* RelaxEdges with the bug of relaxing from vertices still at INF too.
RelaxEdges_FromINF(edges, j, dist) ==
    IF j > Len(edges) THEN dist
    ELSE LET u == edges[j][1]
             v == edges[j][2]
             w == edges[j][3]
         IN  IF dist[u] + w < dist[v]
             THEN RelaxEdges(edges, j + 1, [dist EXCEPT ![v] = dist[u] + w])
             ELSE RelaxEdges(edges, j + 1, dist)

RelaxEdges(edges, j, dist) ==
    IF j > Len(edges) THEN dist
    ELSE LET u == edges[j][1]
             v == edges[j][2]
             w == edges[j][3]
         IN  IF dist[u] # INF /\ dist[u] + w < dist[v]
             THEN RelaxEdges(edges, j + 1, [dist EXCEPT ![v] = dist[u] + w])
             ELSE RelaxEdges(edges, j + 1, dist)

\* "for (int i = 0; i < n - 1; i++)", from round i on.
RECURSIVE Rounds(_, _, _, _)
Rounds(edges, nn, i, dist) ==
    IF i < nn - 1 THEN Rounds(edges, nn, i + 1, RelaxEdges(edges, 1, dist))
    ELSE dist

\* The negative-cycle check: some edge can still be relaxed.
StillRelaxable(edges, dist) ==
    \E j \in 1 .. Len(edges) :
        /\ dist[edges[j][1]] # INF
        /\ dist[edges[j][1]] + edges[j][3] < dist[edges[j][2]]

bfShortestPath(edges, nn, source) ==
    LET dist == Rounds(edges, nn, 0,
                       [v \in 0 .. nn - 1 |-> IF v = source THEN 0 ELSE INF])
    IN  [dist |-> dist, hasNegativeCycle |-> StillRelaxable(edges, dist)]

\* Edge weights: negative, positive, and one as large as the INF sentinel.
BfWeights == {-1, 1, INF}

NoBf == [dist |-> <<>>, hasNegativeCycle |-> FALSE, called |-> FALSE]

\* A run: the caller collects up to MaxBfEdges distinct edges over n
\* vertices (the list kept in increasing order of <<u, v, w>>) and calls
\* shortestPath once, from some source.
InitBf ==
    /\ \E nn \in 1 .. MaxBfN :
          job = [n |-> nn, edges |-> <<>>, source |-> 0, out |-> NoBf]
    /\ SegUnused
    /\ dsu = Unused /\ bst = Unused /\ heap = Unused /\ binom = Unused

BfAddEdge ==
    /\ ~job.out.called
    /\ Len(job.edges) < MaxBfEdges
    /\ \E u \in 0 .. job.n - 1, v \in 0 .. job.n - 1, w \in BfWeights :
          /\ job.edges # <<>> =>
                TupleLess(job.edges[Len(job.edges)], <<u, v, w>>)
          /\ job' = [job EXCEPT !.edges = Append(@, <<u, v, w>>)]
    /\ UNCHANGED <<segVars, calls, alt, dsu, bst, heap, binom>>

BfShortestPath ==
    /\ ~job.out.called
    /\ \E source \in 0 .. job.n - 1 :
          LET r == bfShortestPath(job.edges, job.n, source)
          IN  job' = [job EXCEPT !.source = source,
                                 !.out = [dist |-> r.dist,
                                          hasNegativeCycle |-> r.hasNegativeCycle,
                                          called |-> TRUE]]
    /\ UNCHANGED <<segVars, calls, alt, dsu, bst, heap, binom>>

NextBf == BfAddEdge \/ BfShortestPath

SpecBf == InitBf /\ [][NextBf]_vars

\* ---------------------------------------------------------------- C21
\* Walk weights are exact below Far; a walk that reaches Far stays there
\* (no walk of the runs comes back from Far to INF or below).
HugeAdd(a, w) ==
    IF a >= Far \/ (w > 0 /\ a >= Far - w) THEN Far ELSE a + w

\* Per vertex, the least weight of a walk of at most k edges of E from
\* vertex from (Far when there is none below Far).
RECURSIVE LeastWalk(_, _, _, _)
LeastWalk(E, nn, from, k) ==
    IF k = 0 THEN [v \in 0 .. nn - 1 |-> IF v = from THEN 0 ELSE Far]
    ELSE LET D == LeastWalk(E, nn, from, k - 1)
         IN  [v \in 0 .. nn - 1 |->
                 Least({D[v]} \cup {HugeAdd(D[e[1]], e[3]) :
                                       e \in {f \in E : f[2] = v}})]

\* The vertices reachable from the vertices of S along edges of E.
RECURSIVE ReachFrom(_, _)
ReachFrom(S, E) ==
    LET T == S \cup {e[2] : e \in {f \in E : f[1] \in S}}
    IN  IF T = S THEN S ELSE ReachFrom(T, E)

\* A cycle of negative weight through a vertex reachable from source: a
\* closed walk of at most nn edges from such a vertex with negative weight.
NegativeCycleReachable(E, nn, source) ==
    \E c \in ReachFrom({source}, E) : LeastWalk(E, nn, c, nn)[c] < 0

\* C21 as stated, for one call.
BfContract ==
    LET E == Range(job.edges)
    IN  /\ job.out.hasNegativeCycle
              <=> NegativeCycleReachable(E, job.n, job.source)
        /\ ~job.out.hasNegativeCycle =>
              \A v \in 0 .. job.n - 1 :
                  job.out.dist[v] =
                      IF v \in ReachFrom({job.source}, E)
                      THEN LeastWalk(E, job.n, job.source, job.n - 1)[v]
                      ELSE INF

RECURSIVE CrossOut(_, _, _, _)
CrossOut(flags, nn, i, j) ==
    IF j < nn THEN CrossOut([flags EXCEPT ![j] = FALSE], nn, i, j + i)
    ELSE flags

\* "for (int i = 2; i * i < n; i++)", from i on.
RECURSIVE SieveLoop(_, _, _)
SieveLoop(flags, nn, i) ==
    IF i * i < nn
    THEN SieveLoop(IF flags[i] THEN CrossOut(flags, nn, i, i * i) ELSE flags,
                   nn, i + 1)
    ELSE flags

countPrimes(nn) ==
    IF nn < 2 THEN 0
    ELSE LET flags == SieveLoop([k \in 0 .. nn - 1 |-> k >= 2], nn, 2)
         IN  Cardinality({k \in 0 .. nn - 1 : flags[k]})

\* A run: one call of countPrimes(n).
InitSieve ==
    /\ \E nn \in 0 .. MaxSieveN :
          job = [n |-> nn, count |-> 0, called |-> FALSE]
    /\ SegUnused
    /\ dsu = Unused /\ bst = Unused /\ heap = Unused /\ binom = Unused

CountPrimes ==
    /\ ~job.called
    /\ job' = [job EXCEPT !.count = countPrimes(job.n), !.called = TRUE]
    /\ UNCHANGED <<segVars, calls, alt, dsu, bst, heap, binom>>

NextSieve == CountPrimes

SpecSieve == InitSieve /\ [][NextSieve]_vars

\* ---------------------------------------------------------------- C22
IsPrime(p) == p >= 2 /\ \A d \in 2 .. p - 1 : p % d # 0

\* C22 (under SpecSieve): countPrimes(n) returns the number of primes p with
\* 2 <= p <= n, for every n >= 0, n prime included.
C22_CountsPrimesUpToN ==
    job.called => job.count = Cardinality({p \in 2 .. job.n : IsPrime(p)})

\* ============================================================ quickSelect
\* Sorting::quickSelect and Sorting::partition (src/algorithms/sorting.hpp)
\* on a vector arr, a function on 0 .. sz(arr)-1.
\* "for (int j = low; j < high; j++)" of partition, from j on, with i.
RECURSIVE PartitionLoop(_, _, _, _, _)
PartitionLoop(arr, high, pivot, i, j) ==
    IF j < high
    THEN IF arr[j] <= pivot
         THEN PartitionLoop(swap(arr, i + 1, j), high, pivot, i + 1, j + 1)
         ELSE PartitionLoop(arr, high, pivot, i, j + 1)
    ELSE [arr |-> arr, i |-> i]

\* partition(arr, low, high): arr afterwards and the index returned.
partition(arr, low, high) ==
    LET p == PartitionLoop(arr, high, arr[high], low - 1, low)
    IN  [arr |-> swap(p.arr, p.i + 1, high), r |-> p.i + 1]

\* The while loop of quickSelect: arr afterwards and the value returned.
RECURSIVE SelectLoop(_, _, _, _)
SelectLoop(arr, k, left, right) ==
    IF left <= right
    THEN LET p == partition(arr, left, right)
         IN  IF p.r = k - 1 THEN [arr |-> p.arr, r |-> p.arr[p.r]]
             ELSE IF p.r < k - 1 THEN SelectLoop(p.arr, k, p.r + 1, right)
             ELSE SelectLoop(p.arr, k, left, p.r - 1)
    ELSE [arr |-> arr, r |-> -1]

quickSelect(arr, k) == SelectLoop(arr, k, 0, sz(arr) - 1)

SelectValues == {1, 2, 3}

\* A run: one call of quickSelect(arr, k) on a non-empty arr, 1 <= k <= sz.
InitSelect ==
    /\ \E len \in 1 .. MaxSelectLen :
          \E arr \in [0 .. len - 1 -> SelectValues], k \in 1 .. len :
              job = [given |-> arr, arr |-> arr, k |-> k, res |-> 0,
                     called |-> FALSE]
    /\ SegUnused
    /\ dsu = Unused /\ bst = Unused /\ heap = Unused /\ binom = Unused

QuickSelect ==
    /\ ~job.called
    /\ LET r == quickSelect(job.arr, job.k)
       IN  job' = [job EXCEPT !.arr = r.arr, !.res = r.r, !.called = TRUE]
    /\ UNCHANGED <<segVars, calls, alt, dsu, bst, heap, binom>>

NextSelect == QuickSelect

SpecSelect == InitSelect /\ [][NextSelect]_vars

\* ---------------------------------------------------------------- C23
\* x is the kth largest element of arr: fewer than k elements are larger
\* and at least k are at least as large.
KthLargest(arr, k, x) ==
    /\ \E i \in DOMAIN arr : arr[i] = x
    /\ Cardinality({i \in DOMAIN arr : arr[i] > x}) < k
    /\ Cardinality({i \in DOMAIN arr : arr[i] >= x}) >= k

\* C23 (under SpecSelect): quickSelect(arr, k) returns the kth largest
\* element of arr (k 1-indexed) for every non-empty arr and 1 <= k <= sz(arr).
C23_KthLargest ==
    job.called => KthLargest(job.given, job.k, job.res)

\* ---------------------------------------------------------------- C24
\* The nodes lying entirely inside [l, r] that rangeUpdate(node, start, end,
\* l, r, val) reaches when started on t, each with the object as it is when
\* the call on that node begins.
RECURSIVE CoveredVisits(_, _, _, _, _, _, _)
CoveredVisits(t, node, start, end, l, r, val) ==
    IF start > end \/ start > r \/ end < l THEN {}
    ELSE IF start >= l /\ end <= r
    THEN {[node |-> node, start |-> start, end |-> end, at |-> t]}
    ELSE LET t0  == push(t, node, start, end)
             mid == (start + end) \div 2
             tl  == rangeUpdate(t0, 2 * node, start, mid, l, r, val)
         IN  CoveredVisits(t0, 2 * node, start, mid, l, r, val)
                 \cup CoveredVisits(tl, 2 * node + 1, mid + 1, end, l, r, val)

\* The effect of the call on the covered node of visit v: its stored value
\* grows by val plus its pending delta, its lazy is 0, its children's lazy
\* slots (if any) grow by the same amount, no other slot changes.
DefersAt(v, l, r, val) ==
    LET a   == v.at
        b   == rangeUpdate(a, v.node, v.start, v.end, l, r, val)
        amt == a.lazy[v.node] + val
        kids == IF v.start < v.end THEN {2 * v.node, 2 * v.node + 1} ELSE {}
    IN  /\ b.segment_tree[v.node] = a.segment_tree[v.node] + amt
        /\ b.lazy[v.node] = 0
        /\ \A c \in kids : b.lazy[c] = a.lazy[c] + amt
        /\ \A i \in DOMAIN a.segment_tree :
              i # v.node => b.segment_tree[i] = a.segment_tree[i]
        /\ \A i \in DOMAIN a.lazy :
              i \notin kids \cup {v.node} => b.lazy[i] = a.lazy[i]

\* C24 (under Spec): a node lying entirely inside [l, r] that rangeUpdate
\* reaches gets val plus its pending delta added to its stored value, is
\* left with lazy 0, hands the same amount to the lazy slots of its two
\* children when it is not a leaf, and no slot deeper in its subtree
\* changes; updateRange(0, N-1, val) with N >= 2 on a freshly built tree
\* changes only segment_tree[1], lazy[2] and lazy[3].
C24_LazyDeferral ==
    last.op = "updateRange" =>
        /\ \A v \in CoveredVisits(Obj(prev), 1, 0, n - 1,
                                  last.l, last.r, last.val) :
              DefersAt(v, last.l, last.r, last.val)
        /\ (n >= 2 /\ last.l = 0 /\ last.r = n - 1
                /\ prev = Fields(Construct(prev.ar))) =>
              /\ ar = prev.ar
              /\ \A i \in DOMAIN segment_tree :
                    i # 1 => segment_tree[i] = prev.segment_tree[i]
              /\ \A i \in DOMAIN lazy :
                    i \notin {2, 3} => lazy[i] = prev.lazy[i]
              /\ segment_tree[1] = prev.segment_tree[1] + last.val
              /\ lazy[2] = prev.lazy[2] + last.val
              /\ lazy[3] = prev.lazy[3] + last.val

\* An updateRange(0, 1, val) on three elements: it reached the node of
\* [0, 1], below the root, while that node had a delta pending from an
\* earlier update, and left the leaves below it alone.
C24_Witness ==
    /\ n = 3
    /\ last.op = "updateRange"
    /\ LET V == CoveredVisits(Obj(prev), 1, 0, n - 1, last.l, last.r, last.val)
       IN  \E v \in V : /\ v.node = 2
                        /\ v.start < v.end
                        /\ v.at.lazy[2] # 0
                        /\ v.at.lazy[2] + last.val # 0
                        /\ lazy[4] = v.at.lazy[4] + v.at.lazy[2] + last.val
                        /\ segment_tree[4] = prev.segment_tree[4]

====
